---- MODULE Spec2Model ----
(***************************************************************************)
(* Model of treeline's `tl demo` command (cli/src/treeline/commands/       *)
(* demo.py): the demo-mode flag, the demo database file and its            *)
(* write-ahead log, the scenario registry, and the step-by-step control    *)
(* flow of demo_command, _show_status, _delete_demo_database,              *)
(* _enable_demo, _disable_demo and DefaultScenario.setup.                  *)
(*                                                                         *)
(* One run of the model is a sequence of command invocations.  The flag   *)
(* and the two files persist between invocations; everything else is      *)
(* local to the invocation in progress.                                    *)
(***************************************************************************)
EXTENDS Integers, Sequences, FiniteSets, TLC

VARIABLES
    flag,            \* persisted demo-mode flag (is_demo_mode / set_demo_mode)
    db,              \* demo.duckdb:      "absent" | "old" | "new"
    wal,             \* demo.duckdb.wal:  "absent" | "old" | "new"
    container,       \* DI container of the process: "none" | "real" | "demo"
    pc,              \* position of the running invocation
    action,          \* the `action` argument of demo_command
    scenario,        \* scenario.value handed to demo_command
    scenario_impl,   \* result of SCENARIOS.get(scenario.value)
    has_demo,        \* local of DefaultScenario.setup
    account_id_map,  \* local of DefaultScenario.setup
    trace,           \* calls made by the running invocation, in order
    console,         \* messages printed by the running invocation, in order
    exit_code,       \* -1 while running, else the process exit status
    pre,             \* flag/db/wal as they were when the invocation started
    prev             \* which action the invocation before the running one took

vars == <<flag, db, wal, container, pc, action, scenario, scenario_impl,
          has_demo, account_id_map, trace, console, exit_code, pre, prev>>

\* ------------------------------------------------------------------------
\* Bounds
\* ------------------------------------------------------------------------
MaxIntegrations == 2
MaxAccounts == 2

\* ------------------------------------------------------------------------
\* Values
\* ------------------------------------------------------------------------
None == "<None>"

FileStates == {"absent", "old", "new"}

\* A file written by an earlier invocation is pre-existing for the next one.
Age(f) == IF f = "new" THEN "old" ELSE f

SeqsUpTo(S, n) == UNION {[1..k -> S] : k \in 0..n}

\* ------------------------------------------------------------------------
\* Scenario registry
\* ------------------------------------------------------------------------
DefaultScenario == [name |-> "default",
                    description |-> "Full sample data (accounts, transactions, budget)"]

EmptyScenario == [name |-> "empty",
                  description |-> "Empty database for testing new user experience"]

NoScenario == [name |-> None, description |-> None]

ScenarioList == <<DefaultScenario, EmptyScenario>>

\* SCENARIOS = {scenario.name: scenario for scenario in [...]}; a later
\* entry of the list with the same name replaces an earlier one.
SCENARIOS ==
    [n \in {ScenarioList[i].name : i \in DOMAIN ScenarioList} |->
        LET idx == {i \in DOMAIN ScenarioList : ScenarioList[i].name = n}
            last == CHOOSE i \in idx : \A j \in idx : j <= i
        IN ScenarioList[last]]

\* Variant: SCENARIOS.get(key, DefaultScenario()), a lookup with a fallback.
SCENARIOS_get_with_default(key) ==
    IF key \in DOMAIN SCENARIOS THEN SCENARIOS[key] ELSE DefaultScenario

\* SCENARIOS.get(key)
SCENARIOS_get(key) == IF key \in DOMAIN SCENARIOS THEN SCENARIOS[key] ELSE NoScenario

\* Variant: the enum lists a scenario that was never registered.
ScenarioChoice_with_heavy == {"default", "empty", "heavy"}

ScenarioChoice == {"default", "empty"}

\* Values of scenario.value the command body is exercised with: the
\* registered names and a name the registry does not hold.
ScenarioValues == ScenarioChoice \cup {"heavy"}

\* ------------------------------------------------------------------------
\* Action strings, as sequences of characters
\* ------------------------------------------------------------------------
LowerChar(c) ==
    CASE c = "O" -> "o" [] c = "N" -> "n" [] c = "F" -> "f"
      [] c = "S" -> "s" [] c = "T" -> "t" [] c = "A" -> "a"
      [] c = "U" -> "u" [] c = "R" -> "r" [] c = "E" -> "e"
      [] OTHER -> c

\* str.lower()
Lower(s) == [i \in DOMAIN s |-> LowerChar(s[i])]

STATUS == <<"s", "t", "a", "t", "u", "s">>
ON == <<"o", "n">>
OFF == <<"o", "f", "f">>

\* [given |-> FALSE] is action = None (no argument on the command line).
ActionInputs ==
    {[given |-> FALSE, text |-> <<>>]} \cup
    {[given |-> TRUE, text |-> t] : t \in
        {STATUS, <<"S", "t", "a", "t", "u", "s">>,
         ON, <<"O", "N">>,
         OFF, <<"O", "F", "F">>,
         <<"r", "e", "s", "e", "t">>, <<>>}}

\* Variant: `if not action:` in place of `if action is None:`, so that an
\* empty action string also defaults to "status".
action_lower_falsy_default(a) == Lower(IF a.given /\ a.text # <<>> THEN a.text ELSE STATUS)

\* if action is None: action = "status"; action_lower = action.lower()
action_lower(a) == Lower(IF a.given THEN a.text ELSE STATUS)

\* ------------------------------------------------------------------------
\* Results returned by the services DefaultScenario.setup calls
\* ------------------------------------------------------------------------
\* An integration, as seen through integration.get("integrationName").
IntegrationNames == {"demo", "simplefin", None}

\* Result of get_integrations(): has_data = FALSE is data = None.
IntegrationResults ==
    {r \in [success : BOOLEAN, has_data : BOOLEAN,
            data : SeqsUpTo(IntegrationNames, MaxIntegrations)] :
        ~r.has_data => r.data = <<>>}

Providers == {"demo", "simplefin"}
DemoIds == {"acc-a", "acc-b"}
AccountIds == {1, 2}

\* external_ids.get(p) is None when the account has no id for provider p.
ExternalIds ==
    {e \in [Providers -> DemoIds \cup {"", None}] :
        e["simplefin"] = None \/ (e["simplefin"] = "acc-a" /\ e["demo"] = None)}

Accounts == [id : AccountIds, external_ids : ExternalIds]

\* Result of get_accounts().
AccountResults ==
    {r \in [success : BOOLEAN, has_data : BOOLEAN,
            data : SeqsUpTo(Accounts, MaxAccounts)] :
        ~r.has_data => r.data = <<>>}

\* str(account.id)
Str(n) == CASE n = 0 -> "0" [] n = 1 -> "1" [] n = 2 -> "2" [] n = 3 -> "3"
            [] OTHER -> "n"

\* A dict keyed by demo external id; None marks a key that is not in it.
EmptyMap == [k \in DemoIds \cup {""} |-> None]

Keys(m) == {k \in DOMAIN m : m[k] # None}

\* if demo_id:  (None and "" are falsy)
Truthy(x) == x # None /\ x # ""

\* The scan of lines 88-93: has_demo after the loop over r.data or [].
RECURSIVE ScanForDemo(_, _)
ScanForDemo(data, i) ==
    IF i > Len(data) THEN FALSE
    ELSE IF data[i] = "demo" THEN TRUE
    ELSE ScanForDemo(data, i + 1)

HasDemo(r) ==
    IF r.success
    THEN ScanForDemo(IF r.has_data THEN r.data ELSE <<>>, 1)
    ELSE FALSE

\* The loop of lines 117-121.
RECURSIVE BuildMap(_, _, _)
BuildMap(data, i, m) ==
    IF i > Len(data) THEN m
    ELSE LET demo_id == data[i].external_ids["demo"]
         IN IF Truthy(demo_id)
            THEN BuildMap(data, i + 1, [m EXCEPT ![demo_id] = Str(data[i].id)])
            ELSE BuildMap(data, i + 1, m)

\* account_id_map as line 123 sees it; the map is not built at all when
\* the condition of line 116 is false.
AccountIdMap(r) ==
    IF r.success /\ r.has_data /\ r.data # <<>>
    THEN BuildMap(r.data, 1, EmptyMap)
    ELSE EmptyMap

\* ------------------------------------------------------------------------
\* Collaborators outside demo.py
\* ------------------------------------------------------------------------
is_demo_mode == flag

\* Which database a container built now would open.
Target(f) == IF f THEN "demo" ELSE "real"

\* get_container(): builds the container on first use.
get_container(c, f) == IF c = "none" THEN Target(f) ELSE c

\* What opening / writing the demo database does to its files: a missing
\* database file is created; a log file may be created where there is none.
OpenDb(d) == IF d = "absent" THEN "new" ELSE d
WalAfterWrite(w) == IF w = "absent" THEN {"absent", "new"} ELSE {w}

Event(op, ok) == [op |-> op, ok |-> ok]

\* ------------------------------------------------------------------------
\* Initial state and command entry
\* ------------------------------------------------------------------------
Init ==
    /\ flag \in BOOLEAN
    /\ db \in {"absent", "old"}
    /\ wal \in {"absent", "old"}
    /\ container = "none"
    /\ pc = "idle"
    /\ action = [given |-> FALSE, text |-> <<>>]
    /\ scenario = "default"
    /\ scenario_impl = NoScenario
    /\ has_demo = FALSE
    /\ account_id_map = EmptyMap
    /\ trace = <<>>
    /\ console = <<>>
    /\ exit_code = -1
    /\ pre = [flag |-> flag, db |-> db, wal |-> wal]
    /\ prev = [valid |-> FALSE, kind |-> <<>>]

\* A new process runs `tl demo [action] [--scenario s]`.
Invoke(a, s) ==
    /\ pc \in {"idle", "done"}
    /\ pc' = "demo_command"
    /\ action' = a
    /\ scenario' = s
    /\ scenario_impl' = NoScenario
    /\ has_demo' = FALSE
    /\ account_id_map' = EmptyMap
    /\ trace' = <<>>
    /\ console' = <<>>
    /\ exit_code' = -1
    /\ db' = Age(db)
    /\ wal' = Age(wal)
    /\ container' \in {"none", Target(flag)}
    /\ pre' = [flag |-> flag, db |-> Age(db), wal |-> Age(wal)]
    /\ prev' = IF pc = "done"
               THEN [valid |-> TRUE, kind |-> action_lower(action)]
               ELSE prev
    /\ UNCHANGED flag

\* ------------------------------------------------------------------------
\* demo_command and the handlers that run in one step
\* ------------------------------------------------------------------------
Exit(code) == pc' = "done" /\ exit_code' = code

setup_locals == <<has_demo, account_id_map>>
inputs == <<action, scenario, pre, prev>>

\* Variant: the two branches of _show_status swapped.
show_status_swapped ==
    /\ pc = "demo_command"
    /\ action_lower(action) = STATUS
    /\ console' = console \o <<IF is_demo_mode THEN "Demo mode is OFF" ELSE "Demo mode is ON">>
    /\ trace' = trace \o <<Event("is_demo_mode", TRUE)>>
    /\ Exit(0)
    /\ UNCHANGED <<flag, db, wal, container, scenario_impl, setup_locals, inputs>>

\* _show_status()
show_status ==
    /\ pc = "demo_command"
    /\ action_lower(action) = STATUS
    /\ console' = console \o <<IF is_demo_mode THEN "Demo mode is ON" ELSE "Demo mode is OFF">>
    /\ trace' = trace \o <<Event("is_demo_mode", TRUE)>>
    /\ Exit(0)
    /\ UNCHANGED <<flag, db, wal, container, scenario_impl, setup_locals, inputs>>

\* Variant: the database is initialised before the old one is deleted.
EnableDemoSteps_init_first ==
    <<"set_demo_mode", "reset_container", "print_enabled", "ensure_initialized",
      "_delete_demo_database", "setup", "print_hint">>

\* Variant: the database is initialised before the flag is set.
EnableDemoSteps_init_before_flag ==
    <<"_delete_demo_database", "ensure_initialized", "set_demo_mode", "reset_container",
      "print_enabled", "setup", "print_hint">>

\* Variant: the "Demo mode enabled" report is printed once setup has returned.
EnableDemoSteps_report_last ==
    <<"_delete_demo_database", "set_demo_mode", "reset_container",
      "ensure_initialized", "setup", "print_enabled", "print_hint">>

\* Variant: _enable_demo without the reset_container() call of line 267.
EnableDemoSteps_no_reset ==
    <<"_delete_demo_database", "set_demo_mode", "print_enabled",
      "ensure_initialized", "setup", "print_hint">>

\* The `on` branch of demo_command: registry lookup, then _enable_demo.
EnableDemoSteps ==
    <<"_delete_demo_database", "set_demo_mode", "reset_container", "print_enabled",
      "ensure_initialized", "setup", "print_hint">>

\* The statement of _enable_demo that runs after statement s.
After(s) ==
    LET i == CHOOSE k \in DOMAIN EnableDemoSteps : EnableDemoSteps[k] = s
    IN IF i = Len(EnableDemoSteps) THEN "done" ELSE EnableDemoSteps[i + 1]

lookup_scenario ==
    /\ pc = "demo_command"
    /\ action_lower(action) = ON
    /\ scenario_impl' = SCENARIOS_get(scenario)
    /\ IF scenario_impl' = NoScenario
       THEN /\ console' = console \o <<"Unknown scenario">>
            /\ Exit(1)
       ELSE /\ pc' = EnableDemoSteps[1]
            /\ UNCHANGED <<console, exit_code>>
    /\ UNCHANGED <<flag, db, wal, container, trace, setup_locals, inputs>>

\* Variant: _disable_demo without the early return of lines 283-285.
disable_demo_always_writes ==
    /\ pc = "demo_command"
    /\ action_lower(action) = OFF
    /\ flag' = FALSE
    /\ console' = console \o <<"Demo mode disabled">>
    /\ trace' = trace \o <<Event("set_demo_mode(False)", TRUE)>>
    /\ Exit(0)
    /\ UNCHANGED <<db, wal, container, scenario_impl, setup_locals, inputs>>

\* Variant: _disable_demo that also removes the demo database file.
disable_demo_and_delete ==
    /\ pc = "demo_command"
    /\ action_lower(action) = OFF
    /\ IF ~is_demo_mode
       THEN /\ console' = console \o <<"Demo mode is already disabled">>
            /\ trace' = trace \o <<Event("is_demo_mode", TRUE)>>
            /\ UNCHANGED <<flag, db>>
       ELSE /\ flag' = FALSE
            /\ db' = "absent"
            /\ console' = console \o <<"Demo mode disabled">>
            /\ trace' = trace \o <<Event("is_demo_mode", TRUE), Event("set_demo_mode(False)", TRUE)>>
    /\ Exit(0)
    /\ UNCHANGED <<wal, container, scenario_impl, setup_locals, inputs>>

\* _disable_demo()
disable_demo ==
    /\ pc = "demo_command"
    /\ action_lower(action) = OFF
    /\ IF ~is_demo_mode
       THEN /\ console' = console \o <<"Demo mode is already disabled">>
            /\ trace' = trace \o <<Event("is_demo_mode", TRUE)>>
            /\ UNCHANGED flag
       ELSE /\ flag' = FALSE
            /\ console' = console \o <<"Demo mode disabled">>
            /\ trace' = trace \o <<Event("is_demo_mode", TRUE), Event("set_demo_mode(False)", TRUE)>>
    /\ Exit(0)
    /\ UNCHANGED <<db, wal, container, scenario_impl, setup_locals, inputs>>

\* The else branch of demo_command.
unknown_action ==
    /\ pc = "demo_command"
    /\ action_lower(action) \notin {STATUS, ON, OFF}
    /\ console' = console \o <<"Unknown action", "Use 'on', 'off', or 'status'">>
    /\ Exit(1)
    /\ UNCHANGED <<flag, db, wal, container, scenario_impl, trace, setup_locals, inputs>>

\* ------------------------------------------------------------------------
\* _delete_demo_database and _enable_demo, one statement per step
\* ------------------------------------------------------------------------
\* The files after _delete_demo_database() and the unlink calls it made.
delete_demo_database(d, w) ==
    IF d # "absent"
    THEN [db |-> "absent", wal |-> "absent",
          calls |-> IF w # "absent"
                    THEN <<Event("unlink demo.duckdb", TRUE), Event("unlink demo.duckdb.wal", TRUE)>>
                    ELSE <<Event("unlink demo.duckdb", TRUE)>>]
    ELSE [db |-> d, wal |-> w, calls |-> <<>>]

\* Control moves to the statement after s; falling off the end of
\* _enable_demo returns from demo_command, and the process exits with 0.
Goto_After(s) ==
    /\ pc' = After(s)
    /\ exit_code' = IF After(s) = "done" THEN 0 ELSE exit_code

\* Variant: the wipe is skipped when demo mode is already on.
enable_delete_unless_on ==
    /\ pc = "_delete_demo_database"
    /\ IF is_demo_mode
       THEN UNCHANGED <<db, wal, trace>>
       ELSE LET r == delete_demo_database(db, wal)
            IN /\ db' = r.db
               /\ wal' = r.wal
               /\ trace' = trace \o <<Event("_delete_demo_database", TRUE)>> \o r.calls
    /\ Goto_After("_delete_demo_database")
    /\ UNCHANGED <<flag, container, scenario_impl, console, setup_locals, inputs>>

enable_delete ==
    /\ pc = "_delete_demo_database"
    /\ LET r == delete_demo_database(db, wal)
       IN /\ db' = r.db
          /\ wal' = r.wal
          /\ trace' = trace \o <<Event("_delete_demo_database", TRUE)>> \o r.calls
    /\ Goto_After("_delete_demo_database")
    /\ UNCHANGED <<flag, container, scenario_impl, console, setup_locals, inputs>>

enable_set_demo_mode ==
    /\ pc = "set_demo_mode"
    /\ flag' = TRUE
    /\ trace' = trace \o <<Event("set_demo_mode(True)", TRUE)>>
    /\ Goto_After("set_demo_mode")
    /\ UNCHANGED <<db, wal, container, scenario_impl, console, setup_locals, inputs>>

enable_reset_container ==
    /\ pc = "reset_container"
    /\ container' = "none"
    /\ trace' = trace \o <<Event("reset_container", TRUE)>>
    /\ Goto_After("reset_container")
    /\ UNCHANGED <<flag, db, wal, scenario_impl, console, setup_locals, inputs>>

enable_print_enabled ==
    /\ pc = "print_enabled"
    /\ console' = console \o <<"Demo mode enabled", scenario_impl.name, scenario_impl.description>>
    /\ Goto_After("print_enabled")
    /\ UNCHANGED <<flag, db, wal, container, scenario_impl, trace, setup_locals, inputs>>

\* Effect of a call that opens and may write the database the container
\* is bound to, on the demo database files.
DemoWrite(c) ==
    IF c = "demo"
    THEN db' = OpenDb(db) /\ wal' \in WalAfterWrite(wal)
    ELSE UNCHANGED <<db, wal>>

enable_ensure_initialized ==
    /\ pc = "ensure_initialized"
    /\ container' = get_container(container, flag)
    /\ DemoWrite(container')
    /\ trace' = trace \o <<Event("ensure_initialized", TRUE)>>
    /\ Goto_After("ensure_initialized")
    /\ UNCHANGED <<flag, scenario_impl, console, setup_locals, inputs>>

\* Variant: every scenario is set up the way DefaultScenario is.
enable_setup_always_default ==
    /\ pc = "setup"
    /\ container' = get_container(container, flag)
    /\ trace' = trace \o <<Event("setup", TRUE), Event("get_container", TRUE)>>
    /\ pc' = "get_integrations"
    /\ UNCHANGED <<flag, db, wal, scenario_impl, console, exit_code, setup_locals, inputs>>

\* scenario.setup(get_container): EmptyScenario.setup is `pass`;
\* DefaultScenario.setup starts with container = get_container().
enable_setup ==
    /\ pc = "setup"
    /\ IF scenario_impl.name = "default"
       THEN /\ container' = get_container(container, flag)
            /\ trace' = trace \o <<Event("setup", TRUE), Event("get_container", TRUE)>>
            /\ pc' = "get_integrations"
            /\ UNCHANGED exit_code
       ELSE /\ trace' = trace \o <<Event("setup", TRUE)>>
            /\ Goto_After("setup")
            /\ UNCHANGED container
    /\ UNCHANGED <<flag, db, wal, scenario_impl, console, setup_locals, inputs>>

enable_print_hint ==
    /\ pc = "print_hint"
    /\ console' = console \o <<"Run 'tl demo off' to return to real data">>
    /\ Goto_After("print_hint")
    /\ UNCHANGED <<flag, db, wal, container, scenario_impl, trace, setup_locals, inputs>>

\* ------------------------------------------------------------------------
\* DefaultScenario.setup, one service call per step
\* ------------------------------------------------------------------------
enable_frame == <<flag, container, scenario_impl, inputs>>

\* Variant: the `if not has_demo:` test of line 97 is missing.
setup_get_integrations_always_create ==
    /\ pc = "get_integrations"
    /\ \E r \in IntegrationResults :
          /\ has_demo' = HasDemo(r)
          /\ trace' = trace \o <<Event("get_integrations", r.success)>>
    /\ pc' = "create_integration"
    /\ UNCHANGED <<db, wal, account_id_map, console, exit_code, enable_frame>>

\* Lines 85-93: get_integrations() and the scan for "demo".
setup_get_integrations ==
    /\ pc = "get_integrations"
    /\ \E r \in IntegrationResults :
          /\ has_demo' = HasDemo(r)
          /\ trace' = trace \o <<Event("get_integrations", r.success)>>
    /\ pc' = IF has_demo' THEN "sync_all_integrations" ELSE "create_integration"
    /\ UNCHANGED <<db, wal, account_id_map, console, exit_code, enable_frame>>

\* Variant: the sync is issued before the demo integration is created.
setup_create_integration_after_sync ==
    /\ pc = "create_integration"
    /\ \E ok \in BOOLEAN, created \in BOOLEAN :
          /\ trace' = trace \o <<Event("sync_all_integrations", ok),
                                 Event("create_integration", created)>>
          /\ console' = console \o <<"Syncing demo data...",
                                     IF ok THEN "Demo data synced successfully!"
                                           ELSE "Note: sync_all_integrations">>
    /\ DemoWrite(container)
    /\ pc' = "get_accounts"
    /\ UNCHANGED <<setup_locals, exit_code, enable_frame>>

\* Lines 97-98: the result of create_integration is dropped.
setup_create_integration ==
    /\ pc = "create_integration"
    /\ \E ok \in BOOLEAN :
          trace' = trace \o <<Event("create_integration", ok)>>
    /\ DemoWrite(container)
    /\ pc' = "sync_all_integrations"
    /\ UNCHANGED <<setup_locals, console, exit_code, enable_frame>>

\* Variant: a failed sync aborts the command instead of printing a note.
setup_sync_fatal ==
    /\ pc = "sync_all_integrations"
    /\ \E ok \in BOOLEAN :
          /\ trace' = trace \o <<Event("sync_all_integrations", ok)>>
          /\ console' = console \o <<"Syncing demo data...",
                                     IF ok THEN "Demo data synced successfully!"
                                           ELSE "Note: sync_all_integrations">>
          /\ IF ok THEN pc' = "get_accounts" /\ UNCHANGED exit_code ELSE Exit(1)
    /\ DemoWrite(container)
    /\ UNCHANGED <<setup_locals, enable_frame>>

\* Lines 101-109.
setup_sync ==
    /\ pc = "sync_all_integrations"
    /\ \E ok \in BOOLEAN :
          /\ trace' = trace \o <<Event("sync_all_integrations", ok)>>
          /\ console' = console \o <<"Syncing demo data...",
                                     IF ok THEN "Demo data synced successfully!"
                                           ELSE "Note: sync_all_integrations">>
    /\ DemoWrite(container)
    /\ pc' = "get_accounts"
    /\ UNCHANGED <<setup_locals, exit_code, enable_frame>>

\* Variant: the `if account_id_map:` test of line 123 is missing.
setup_get_accounts_always_balance ==
    /\ pc = "get_accounts"
    /\ \E r \in AccountResults :
          /\ account_id_map' = AccountIdMap(r)
          /\ trace' = trace \o <<Event("get_accounts", r.success)>>
    /\ pc' = "balance_history"
    /\ UNCHANGED <<db, wal, has_demo, console, exit_code, enable_frame>>

\* Lines 112-123: get_accounts() and the Account-ID map.
setup_get_accounts ==
    /\ pc = "get_accounts"
    /\ \E r \in AccountResults :
          /\ account_id_map' = AccountIdMap(r)
          /\ trace' = trace \o <<Event("get_accounts", r.success)>>
    /\ pc' = IF Keys(account_id_map') # {} THEN "balance_history" ELSE "budget"
    /\ UNCHANGED <<db, wal, has_demo, console, exit_code, enable_frame>>

\* Lines 124-131.
setup_balance_history ==
    /\ pc = "balance_history"
    /\ \E ok \in BOOLEAN :
          /\ trace' = trace \o <<Event("generate_demo_balance_history_sql", TRUE),
                                 Event("execute_write_query(balance_sql)", ok)>>
          /\ console' = console \o <<IF ok THEN "Created balance history"
                                           ELSE "Note: execute_write_query(balance_sql)">>
    /\ DemoWrite(container)
    /\ pc' = "budget"
    /\ UNCHANGED <<setup_locals, exit_code, enable_frame>>

\* Lines 133-141, then setup returns into _enable_demo.
setup_budget ==
    /\ pc = "budget"
    /\ \E ok \in BOOLEAN :
          /\ trace' = trace \o <<Event("generate_demo_budget_sql", TRUE),
                                 Event("execute_write_query(budget_sql)", ok)>>
          /\ console' = console \o <<IF ok THEN "Demo budget configured"
                                           ELSE "Note: execute_write_query(budget_sql)">>
    /\ DemoWrite(container)
    /\ Goto_After("setup")
    /\ UNCHANGED <<setup_locals, enable_frame>>

\* ------------------------------------------------------------------------
\* Specification
\* ------------------------------------------------------------------------
Next ==
    \/ \E a \in ActionInputs, s \in ScenarioValues : Invoke(a, s)
    \/ show_status
    \/ lookup_scenario
    \/ disable_demo
    \/ unknown_action
    \/ enable_delete
    \/ enable_set_demo_mode
    \/ enable_reset_container
    \/ enable_print_enabled
    \/ enable_ensure_initialized
    \/ enable_setup
    \/ enable_print_hint
    \/ setup_get_integrations
    \/ setup_create_integration
    \/ setup_sync
    \/ setup_get_accounts
    \/ setup_balance_history
    \/ setup_budget

Spec == Init /\ [][Next]_vars

TypeOK ==
    /\ flag \in BOOLEAN
    /\ db \in FileStates
    /\ wal \in FileStates
    /\ container \in {"none", "real", "demo"}
    /\ action \in ActionInputs
    /\ scenario \in ScenarioValues
    /\ has_demo \in BOOLEAN
    /\ exit_code \in {-1, 0, 1}

\* ------------------------------------------------------------------------
\* Vocabulary of the properties
\* ------------------------------------------------------------------------
Pos(op) == {i \in DOMAIN trace : trace[i].op = op}
Called(op) == Pos(op) # {}
Count(op) == Cardinality(Pos(op))

\* Every call of a comes before every call of b.
Before(a, b) == \A i \in Pos(a), j \in Pos(b) : i < j

Registered == scenario \in {ScenarioList[i].name : i \in DOMAIN ScenarioList}

\* What the command line asked for, read off the raw argument.
AskedStatus == ~action.given \/ Lower(action.text) = STATUS
AskedOn == action.given /\ Lower(action.text) = ON
AskedOff == action.given /\ Lower(action.text) = OFF
AskedOther == action.given /\ Lower(action.text) \notin {STATUS, ON, OFF}

Running == pc \notin {"idle"}
Done == pc = "done"

FilesAsBefore == db = pre.db /\ wal = pre.wal
NothingChanged == flag = pre.flag /\ FilesAsBefore

\* ------------------------------------------------------------------------
\* C1: in `on` with a registered scenario the wipe comes before the flag is
\* set, the flag is set before ensure_initialized, and ensure_initialized
\* comes before scenario.setup; ensure_initialized is never called while
\* the database file from before the call still exists.
\* ------------------------------------------------------------------------
C1_OnOrdering ==
    (Running /\ AskedOn /\ Registered) =>
        /\ Called("set_demo_mode(True)") =>
              Called("_delete_demo_database") /\ Before("_delete_demo_database", "set_demo_mode(True)")
        /\ Called("ensure_initialized") =>
              Called("set_demo_mode(True)") /\ Before("set_demo_mode(True)", "ensure_initialized")
        /\ Called("setup") =>
              Called("ensure_initialized") /\ Before("ensure_initialized", "setup")
        /\ pc = "ensure_initialized" => db # "old"
        /\ Done => Called("setup")

C1_Witness ==
    /\ Done /\ AskedOn /\ Registered
    /\ pre.db = "old"
    /\ Called("ensure_initialized") /\ Called("setup")

\* ------------------------------------------------------------------------
\* C2: after `on` completes, neither a database file nor a log file from
\* before the call is still there.
\* ------------------------------------------------------------------------
C2_Freshness ==
    (Done /\ AskedOn /\ Registered) => (db # "old" /\ wal # "old")

\* ------------------------------------------------------------------------
\* C3: `on` with a scenario name that is not in the registry exits non-zero
\* with the unknown-scenario message; flag and files are as before and no
\* collaborator is called.
\* ------------------------------------------------------------------------
C3_UnknownScenario ==
    (Running /\ AskedOn /\ ~Registered) =>
        /\ pc \in {"demo_command", "done"}
        /\ NothingChanged
        /\ trace = <<>>
        /\ Done => (exit_code = 1 /\ console = <<"Unknown scenario">>)

C3_Witness ==
    Done /\ AskedOn /\ ~Registered /\ exit_code = 1 /\ pre.flag /\ pre.db = "old"

\* ------------------------------------------------------------------------
\* C4: an action that lower-cases to none of status/on/off exits non-zero
\* with the unknown-action message; flag and files are as before and no
\* collaborator is called.
\* ------------------------------------------------------------------------
C4_UnknownAction ==
    (Running /\ AskedOther) =>
        /\ pc \in {"demo_command", "done"}
        /\ NothingChanged
        /\ trace = <<>>
        /\ Done => (exit_code = 1 /\ console[1] = "Unknown action")

C4_Witness ==
    Done /\ AskedOther /\ action.text = <<>> /\ exit_code = 1 /\ pre.flag /\ pre.db = "old"

\* ------------------------------------------------------------------------
\* C5: whatever get_integrations, create_integration, sync_all_integrations,
\* get_accounts and the balance-history write return, DefaultScenario.setup
\* issues the budget write exactly once and `on` exits with 0, flag ON.
\* ------------------------------------------------------------------------
Failed(op) == \E i \in Pos(op) : ~trace[i].ok

C5_PartialFailureTolerance ==
    /\ (Running /\ AskedOn /\ scenario = "default") => exit_code \in {-1, 0}
    /\ (Done /\ AskedOn /\ scenario = "default") =>
          /\ Count("execute_write_query(budget_sql)") = 1
          /\ exit_code = 0
          /\ flag

C5_Witness ==
    /\ Done /\ AskedOn /\ scenario = "default"
    /\ Failed("create_integration")
    /\ Failed("sync_all_integrations")
    /\ Failed("execute_write_query(balance_sql)")
    /\ Count("execute_write_query(budget_sql)") = 1

\* ------------------------------------------------------------------------
\* C6: in DefaultScenario.setup the stages that printed a warning are
\* exactly the stages whose result was a failure.
\* ------------------------------------------------------------------------
Stages == {"create_integration", "sync_all_integrations",
           "execute_write_query(balance_sql)", "execute_write_query(budget_sql)"}

Note(op) ==
    CASE op = "create_integration" -> "Note: create_integration"
      [] op = "sync_all_integrations" -> "Note: sync_all_integrations"
      [] op = "execute_write_query(balance_sql)" -> "Note: execute_write_query(balance_sql)"
      [] op = "execute_write_query(budget_sql)" -> "Note: execute_write_query(budget_sql)"

Warned(op) == \E i \in DOMAIN console : console[i] = Note(op)

C6_WarningsMatchFailures ==
    (Done /\ AskedOn /\ scenario = "default") =>
        {op \in Stages : Warned(op)} = {op \in Stages : Failed(op)}

\* ------------------------------------------------------------------------
\* C7: every `on` with a registered scenario runs the wipe exactly once,
\* before ensure_initialized, whether the flag was OFF or ON before.
\* ------------------------------------------------------------------------
C7_UnconditionalDelete ==
    /\ (Running /\ AskedOn /\ Registered /\ Called("ensure_initialized")) =>
          /\ Count("_delete_demo_database") = 1
          /\ Before("_delete_demo_database", "ensure_initialized")
          /\ pre.db # "absent" => Called("unlink demo.duckdb")
    /\ (Done /\ AskedOn /\ Registered) =>
          Count("_delete_demo_database") = 1 /\ Called("ensure_initialized")

C7_Witness ==
    /\ Done /\ AskedOn /\ Registered
    /\ pre.flag /\ pre.db = "old"
    /\ Count("_delete_demo_database") = 1
    /\ db = "new"

\* ------------------------------------------------------------------------
\* C8: `off` leaves the flag OFF; an `off` that directly follows an `off`
\* reports "already disabled", exits with 0 and does not write the flag.
\* ------------------------------------------------------------------------
C8_OffIdempotent ==
    (Done /\ AskedOff) =>
        /\ ~flag
        /\ exit_code = 0
        /\ (prev.valid /\ prev.kind = OFF) =>
              /\ console = <<"Demo mode is already disabled">>
              /\ ~Called("set_demo_mode(False)")

C8_Witness ==
    Done /\ AskedOff /\ prev.valid /\ prev.kind = OFF /\ ~flag /\ exit_code = 0

\* ------------------------------------------------------------------------
\* C9: `off` leaves the database file and the log file as they were and
\* calls neither ensure_initialized nor a scenario's setup.
\* ------------------------------------------------------------------------
C9_OffFlagOnly ==
    (Running /\ AskedOff) =>
        /\ FilesAsBefore
        /\ ~Called("ensure_initialized")
        /\ ~Called("setup")
        /\ ~Called("_delete_demo_database")

C9_Witness ==
    Done /\ AskedOff /\ pre.flag /\ ~flag /\ pre.db = "old" /\ pre.wal = "old" /\ db = "old"

\* ------------------------------------------------------------------------
\* C10: `status`, also when no action is given, prints ON exactly when the
\* flag is ON and leaves the flag and both files as they were.
\* ------------------------------------------------------------------------
C10_StatusPure ==
    (Running /\ AskedStatus) =>
        /\ NothingChanged
        /\ Done => /\ console = <<IF pre.flag THEN "Demo mode is ON" ELSE "Demo mode is OFF">>
                   /\ exit_code = 0

C10_Witness ==
    Done /\ ~action.given /\ pre.flag /\ console = <<"Demo mode is ON">> /\ pre.db = "old"

\* ------------------------------------------------------------------------
\* C11: every `on` with a registered scenario calls ensure_initialized
\* exactly once, after the flag has been set to ON and before
\* scenario.setup.
\* ------------------------------------------------------------------------
C11_InitExactlyOnce ==
    (Running /\ AskedOn /\ Registered) =>
        /\ Count("ensure_initialized") <= 1
        /\ pc = "ensure_initialized" =>
              flag /\ Called("set_demo_mode(True)") /\ ~Called("setup")
        /\ Called("setup") =>
              Count("ensure_initialized") = 1 /\ Before("ensure_initialized", "setup")
        /\ Done => Count("ensure_initialized") = 1 /\ Count("setup") = 1

C11_Witness ==
    /\ Done /\ AskedOn /\ Registered /\ ~pre.flag /\ flag
    /\ Count("ensure_initialized") = 1
    /\ Count("setup") = 1

\* ------------------------------------------------------------------------
\* C12 as stated: the report with the scenario's name and description is
\* printed only after ensure_initialized and scenario.setup were called.
\* ------------------------------------------------------------------------
Printed(msg) == \E i \in DOMAIN console : console[i] = msg

C12_ReportAfterSetup ==
    (Running /\ AskedOn /\ Registered /\ Printed("Demo mode enabled")) =>
        Called("ensure_initialized") /\ Called("setup")

\* C12 as the code has it: the report with the scenario's name and
\* description is printed after the flag is set and the container reset,
\* and before ensure_initialized and scenario.setup are called; what is
\* printed after scenario.setup is the "tl demo off" hint.
C12_ReportBeforeInit ==
    (Running /\ AskedOn /\ Registered) =>
        /\ Printed("Demo mode enabled") =>
              /\ Called("set_demo_mode(True)") /\ Called("reset_container")
              /\ SubSeq(console, 1, 3) =
                    <<"Demo mode enabled", scenario, SCENARIOS[scenario].description>>
        /\ (pc = "ensure_initialized" \/ Called("ensure_initialized") \/ Called("setup")) =>
              Printed("Demo mode enabled")
        /\ Done => console[Len(console)] = "Run 'tl demo off' to return to real data"

C12_Witness ==
    /\ pc = "ensure_initialized" /\ AskedOn /\ Registered
    /\ Printed("Demo mode enabled")
    /\ ~Called("ensure_initialized") /\ ~Called("setup")

\* ------------------------------------------------------------------------
\* C13: EmptyScenario.setup calls nothing: no container factory, no
\* integration, sync or account service, no write query; the step leaves
\* flag, files, container and console as ensure_initialized left them.
\* ------------------------------------------------------------------------
SetupCalls ==
    {"get_container", "get_integrations", "create_integration", "sync_all_integrations",
     "get_accounts", "generate_demo_balance_history_sql", "execute_write_query(balance_sql)",
     "generate_demo_budget_sql", "execute_write_query(budget_sql)"}

C13_EmptySetupNoOp ==
    /\ []((Running /\ AskedOn /\ scenario = "empty") => \A op \in SetupCalls : ~Called(op))
    /\ [][(pc = "setup" /\ AskedOn /\ scenario = "empty") =>
             /\ trace' = Append(trace, Event("setup", TRUE))
             /\ UNCHANGED <<flag, db, wal, container, console, has_demo, account_id_map>>]_vars

C13_Witness ==
    /\ Done /\ AskedOn /\ scenario = "empty"
    /\ Called("ensure_initialized") /\ Called("setup")
    /\ trace[Len(trace)] = Event("setup", TRUE)
    /\ db = "new"

\* ------------------------------------------------------------------------
\* C14: for each of the four combinations of database file present/absent
\* and log file present/absent, neither file exists once
\* _delete_demo_database has returned; with the database file absent the
\* removal of the log file is still attempted.
\* ------------------------------------------------------------------------
C14_DeleteRemovesBoth ==
    (pc = "set_demo_mode" /\ Called("_delete_demo_database")) =>
        /\ db = "absent"
        /\ wal = "absent"
        /\ pre.wal # "absent" => Called("unlink demo.duckdb.wal")

\* ------------------------------------------------------------------------
\* C15: the balance-history statement is generated and written exactly
\* when the Account-ID map is non-empty, that is when get_accounts
\* succeeded and some returned account has a non-empty external id for
\* provider "demo"; the keys of the map are the demo external ids of such
\* accounts and nothing else.
\* ------------------------------------------------------------------------
\* The non-empty "demo" external ids among the accounts of result r.
DemoExternalIds(r) ==
    {r.data[i].external_ids["demo"] : i \in DOMAIN r.data} \ {None, ""}

C15_BalanceIffMapNonEmpty ==
    /\ pc = "get_accounts" =>
          \A r \in AccountResults :
              LET m == AccountIdMap(r)
              IN /\ Keys(m) = IF r.success THEN DemoExternalIds(r) ELSE {}
                 /\ \A k \in Keys(m) :
                       \E i \in DOMAIN r.data :
                           r.data[i].external_ids["demo"] = k /\ m[k] = Str(r.data[i].id)
    /\ (Running /\ AskedOn /\ scenario = "default") =>
          /\ Count("execute_write_query(balance_sql)") <= 1
          /\ Called("generate_demo_balance_history_sql") <=> Called("execute_write_query(balance_sql)")
          /\ Called("execute_write_query(balance_sql)") =>
                Called("get_accounts") /\ Keys(account_id_map) # {}
          /\ pc = "balance_history" => Keys(account_id_map) # {}
          /\ Called("execute_write_query(budget_sql)") =>
                (Called("execute_write_query(balance_sql)") <=> Keys(account_id_map) # {})

C15_Witness ==
    /\ Done /\ AskedOn /\ scenario = "default"
    /\ Keys(account_id_map) = {"acc-a", "acc-b"}
    /\ Called("execute_write_query(balance_sql)")

\* The skipped case of C15: accounts fetched, none usable, no write.
C15_WitnessSkipped ==
    /\ Done /\ AskedOn /\ scenario = "default"
    /\ ~Failed("get_accounts")
    /\ Keys(account_id_map) = {}
    /\ ~Called("execute_write_query(balance_sql)")

\* ------------------------------------------------------------------------
\* C16: DefaultScenario.setup calls create_integration at most once, and
\* exactly when the list get_integrations returned holds no integration
\* named "demo".  A failure result of get_integrations counts as a list
\* that holds none.
\* ------------------------------------------------------------------------
\* The integrations a result reports: the data of a successful result.
ReportedIntegrations(r) == IF r.success THEN {r.data[i] : i \in DOMAIN r.data} ELSE {}

C16_CreateIffNoDemo ==
    /\ pc = "get_integrations" =>
          \A r \in IntegrationResults : HasDemo(r) <=> "demo" \in ReportedIntegrations(r)
    /\ (Running /\ AskedOn /\ scenario = "default") =>
          /\ Count("create_integration") <= 1
          /\ pc = "create_integration" => ~has_demo
          /\ Called("create_integration") => Called("get_integrations") /\ ~has_demo
          /\ Called("sync_all_integrations") => (Called("create_integration") <=> ~has_demo)

C16_Witness ==
    /\ Done /\ AskedOn /\ scenario = "default"
    /\ ~has_demo /\ ~Failed("get_integrations")
    /\ Count("create_integration") = 1

\* The other case of C16: a "demo" integration is reported, none is created.
C16_WitnessHasDemo ==
    /\ Done /\ AskedOn /\ scenario = "default"
    /\ has_demo
    /\ ~Called("create_integration")

\* ------------------------------------------------------------------------
\* C17: the service calls of DefaultScenario.setup are issued one after
\* another in the order get_integrations, create_integration, sync, account
\* fetch, balance-history write, budget write; none is issued twice and a
\* later stage is never issued before an earlier mandatory one.
\* ------------------------------------------------------------------------
SetupOrder ==
    <<"get_integrations", "create_integration", "sync_all_integrations", "get_accounts",
      "execute_write_query(balance_sql)", "execute_write_query(budget_sql)">>

C17_StagesInOrder ==
    (Running /\ AskedOn /\ scenario = "default") =>
        /\ \A i \in DOMAIN SetupOrder : Count(SetupOrder[i]) <= 1
        /\ \A i, j \in DOMAIN SetupOrder : i < j => Before(SetupOrder[i], SetupOrder[j])
        /\ Called("create_integration") => Called("get_integrations")
        /\ Called("sync_all_integrations") => Called("get_integrations")
        /\ Called("get_accounts") => Called("sync_all_integrations")
        /\ Called("execute_write_query(balance_sql)") => Called("get_accounts")
        /\ Called("execute_write_query(budget_sql)") => Called("get_accounts")
        /\ Done => Called("execute_write_query(budget_sql)")

C17_Witness ==
    /\ Done /\ AskedOn /\ scenario = "default"
    /\ \A i \in DOMAIN SetupOrder : Count(SetupOrder[i]) = 1

\* ------------------------------------------------------------------------
\* C18: provisioning never targets the real database: reset_container is
\* called after set_demo_mode(True) and before ensure_initialized and
\* scenario.setup, and ensure_initialized and every mutating call of setup
\* (create_integration, sync_all_integrations, execute_write_query) are made
\* with the flag ON and with no container bound to the real database.
\* ------------------------------------------------------------------------
MutatingCalls ==
    {"create_integration", "sync_all_integrations",
     "execute_write_query(balance_sql)", "execute_write_query(budget_sql)"}

\* Positions from which the next step issues a mutating call of setup.
MutatingPcs == {"create_integration", "sync_all_integrations", "balance_history", "budget"}

C18_NeverTargetsRealDatabase ==
    (Running /\ AskedOn /\ Registered) =>
        /\ Called("reset_container") =>
              Called("set_demo_mode(True)") /\ Before("set_demo_mode(True)", "reset_container")
        /\ \A op \in {"ensure_initialized", "setup"} \cup MutatingCalls :
              Called(op) => Called("reset_container") /\ Before("reset_container", op)
        /\ pc = "ensure_initialized" =>
              flag /\ Called("reset_container") /\ container # "real"
        /\ pc \in MutatingPcs => flag /\ container = "demo"

C18_Witness ==
    /\ Done /\ AskedOn /\ scenario = "default"
    /\ ~pre.flag /\ flag
    /\ container = "demo"
    /\ Called("reset_container")
    /\ Called("create_integration") /\ Called("sync_all_integrations")
    /\ Called("execute_write_query(balance_sql)")

\* ------------------------------------------------------------------------
\* C19: the scenario values the CLI accepts are exactly the registry keys,
\* each key is the name of the scenario it maps to, names are unique, and
\* so `on` with an accepted value always resolves to that scenario and
\* never takes the unknown-scenario branch.
\* ------------------------------------------------------------------------
C19_RegistryMatchesCli ==
    /\ ScenarioChoice = DOMAIN SCENARIOS
    /\ \A k \in DOMAIN SCENARIOS : SCENARIOS[k].name = k
    /\ \A i, j \in DOMAIN ScenarioList :
          ScenarioList[i].name = ScenarioList[j].name => i = j
    /\ (Running /\ AskedOn /\ scenario \in ScenarioChoice) =>
          /\ ~Printed("Unknown scenario")
          /\ exit_code # 1
          /\ pc # "demo_command" => scenario_impl.name = scenario

C19_Witness ==
    /\ Done /\ AskedOn /\ scenario = "empty" /\ scenario \in ScenarioChoice
    /\ scenario_impl = EmptyScenario
    /\ exit_code = 0

====
